---- MODULE Spec2Model ----
(***************************************************************************)
(* Model of src/mpu6050_ros.py: the MPU6050 driver that configures the     *)
(* sensor over the I2C bus (mpu6050_PI.__init__), opens a websocket to     *)
(* rosbridge, advertises two topics and then samples and publishes in an   *)
(* endless loop (mpu6050_PI.send2ros).                                     *)
(*                                                                         *)
(* The program is single threaded.  pc is the position of the one thread   *)
(* of control; every bus operation, every send and the sleep is one step,  *)
(* because each of them can fail or be interrupted on its own.             *)
(*                                                                         *)
(* Floats are modelled exactly, as normalised fractions <<num, den>>.      *)
(* Time is counted in ticks.                                               *)
(***************************************************************************)
EXTENDS Integers, Sequences, FiniteSets, TLC

VARIABLES
    pc,                 \* position of the thread of control
    FS_SEL, AFS_SEL,    \* arguments of __init__ (CLI --FS_SEL, --AFS_SEL)
    debug, delay,       \* arguments of __init__ (CLI --debug, --delay)
    i2c_address,        \* argument of __init__ (CLI --i2c_address)
    address,            \* self.address
    GYRO_CONFIG,        \* local of __init__: byte read from 0x1B
    ACCEL_CONFIG,       \* local of __init__: byte read from 0x1C
    scale_factor_gyro,  \* self.scale_factor_gyro
    scale_factor_acc,   \* self.scale_factor_acc
    regs,               \* the device's power and configuration registers
    busLog,             \* every completed bus operation, in order
    connected,          \* self.publish exists (the websocket is open)
    nconnect,           \* number of websockets opened
    sent,               \* every message sent on the websocket, in order
    accel_dict,         \* self.accel_dict
    gyro_dict,          \* self.gyro_dict
    iter,               \* number of loop iterations started
    sample,             \* which register snapshot the device presents
    k,                  \* number of axis bytes read so far in this iteration
    high,               \* local of read_word: the high byte just read
    raw,                \* locals gyro_xout, gyro_yout, gyro_zout, accel_xout, accel_yout, accel_zout
    now,                \* the clock read by time.time()
    start_time,         \* local of send2ros
    prev_start,         \* start_time of the iteration before
    elapsed,            \* time.time() - start_time as computed on line 244
    curr_delay,         \* local of send2ros
    sleeps,             \* every duration handed to time.sleep, in order
    out,                \* what the program has printed, in order
    exitCode,           \* exit status of the process, NotExited while it runs
    raised,             \* the exception raised in the process, NoException if none
    raisedAt,           \* the position at which it was raised
    init_max,           \* locals accel_xout_scaled_max, .._y.., .._z.. of __init__
    loop_max,           \* locals accel_xout_scaled_max, .._y.., .._z.. of send2ros
    fin, fout           \* input and result of the function under check (SpecFn)

vars == <<pc, FS_SEL, AFS_SEL, debug, delay, i2c_address, address, GYRO_CONFIG,
          ACCEL_CONFIG, scale_factor_gyro, scale_factor_acc, regs, busLog,
          connected, nconnect, sent, accel_dict, gyro_dict, iter, sample, k,
          high, raw, now, start_time, prev_start, elapsed, curr_delay, sleeps,
          out, exitCode, raised, raisedAt, init_max, loop_max, fin, fout>>

(***************************************************************************)
(* Bounds of the model.                                                    *)
(***************************************************************************)
MaxIter == 2
NSamples == 2
MaxLatency == 3

\* selector values tried: the four valid ones and one out of range
SelInputs == 0..4
\* --delay values tried, in ticks
DelayInputs == {1, 2}
\* --i2c_address values tried
AddressInputs == {68}
\* prior contents of a configuration register: reset value, and range bits set
ConfigPrior == {0, 24}

(***************************************************************************)
(* Arithmetic the code uses.                                               *)
(***************************************************************************)
Abs(n) == IF n < 0 THEN -n ELSE n
Max(a, b) == IF a >= b THEN a ELSE b

RECURSIVE Pow2(_)
Pow2(n) == IF n <= 0 THEN 1 ELSE 2 * Pow2(n - 1)

RECURSIVE GCD(_, _)
GCD(a, b) == IF b = 0 THEN a ELSE GCD(b, a % b)

\* a float, kept exactly: the fraction n/d in lowest terms with d > 0
Rat(n, d) ==
    LET g == GCD(Abs(n), Abs(d))
        s == IF d < 0 THEN -1 ELSE 1
    IN  <<(s * n) \div g, (s * d) \div g>>

\* Python's a / b on floats
RatDiv(a, b) == Rat(a[1] * b[2], a[2] * b[1])

\* Python's float(n) and the literal 0.0
Float(n) == <<n, 1>>
Zero == Float(0)

\* Python's a << n on non-negative integers
Shl(a, n) == a * Pow2(n)

\* Python's a | b on non-negative integers
RECURSIVE BitOr(_, _)
BitOr(a, b) ==
    IF a = 0 THEN b
    ELSE IF b = 0 THEN a
    ELSE (IF a % 2 = 1 \/ b % 2 = 1 THEN 1 ELSE 0) + 2 * BitOr(a \div 2, b \div 2)

(***************************************************************************)
(* Registers.                                                              *)
(***************************************************************************)
power_mgmt_1 == 107
REG_GYRO_CONFIG == 27
REG_ACCEL_CONFIG == 28
\* high-byte registers in the order send2ros reads them:
\* gyro X, Y, Z (0x43, 0x45, 0x47) then accel X, Y, Z (0x3b, 0x3d, 0x3f)
AxisRegs == <<67, 69, 71, 59, 61, 63>>
ConfigRegs == {power_mgmt_1, REG_GYRO_CONFIG, REG_ACCEL_CONFIG}
\* the register the (n+1)-th byte read of an iteration addresses, n in 0..11
RegOf(n) == AxisRegs[(n \div 2) + 1] + (n % 2)

\* The byte the device holds in axis register adr while it presents snapshot s.
\* High bytes (odd registers) alternate between small and >= 0x80, so that
\* both signs occur; low bytes differ per axis and per snapshot.
SampleByte(s, adr) ==
    IF adr % 2 = 1
    THEN (IF s % 2 = 1 THEN s ELSE 255 - s)
    ELSE (adr + 16 * s) % 256

(***************************************************************************)
(* read_word and read_word_2c, on the two bytes the bus returned.          *)
(***************************************************************************)
read_word(h, l) == Shl(h, 8) + l

\* a variant of read_word_2c that takes 0x8000 itself for positive
read_word_2c_gt(h, l) ==
    LET val == read_word(h, l)
    IN  IF val > 32768 THEN -((65535 - val) + 1) ELSE val

read_word_2c(h, l) ==
    LET val == read_word(h, l)
    IN  IF val >= 32768 THEN -((65535 - val) + 1) ELSE val

(***************************************************************************)
(* Values of __init__.                                                     *)
(***************************************************************************)
\* a variant of HexDigits that takes the integer as it is: int(i2c_address)
HexDigits_identity(n) == n

RECURSIVE HexDigits(_)
\* int('0x' + str(n), 0): the decimal digits of n read as hexadecimal digits
HexDigits(n) == IF n < 10 THEN n ELSE (n % 10) + 16 * HexDigits(n \div 10)

\* a variant of GyroScale that divides integers: 131/(2**int(FS_SEL))
GyroScale_intDiv(fs) == Float(131 \div Pow2(fs))

\* 131.0/(2**int(FS_SEL))
GyroScale(fs) == RatDiv(Float(131), Float(Pow2(fs)))

\* float(2**(11-int(AFS_SEL)))
AccelScale(afs) == Float(Pow2(11 - afs))

\* a variant of ConfigValue that adds the selector bits
ConfigValue_plus(old, sel) == old + Shl(sel, 3)

\* the value written back to a configuration register
ConfigValue(old, sel) == BitOr(old, Shl(sel, 3))

\* a variant of AdvertiseMsg that advertises the accel topic for every id
AdvertiseMsg_sameTopic(id, topic) ==
    [op |-> "advertise", id |-> id, topic |-> "/MPU6050/Accel",
     type |-> "geometry_msgs/Vector3"]

AdvertiseMsg(id, topic) ==
    [op |-> "advertise", id |-> id, topic |-> topic, type |-> "geometry_msgs/Vector3"]

PublishDict(id, topic) ==
    [op |-> "publish", id |-> id, topic |-> topic,
     msg |-> [x |-> Zero, y |-> Zero, z |-> Zero]]

\* json.dumps(d): the JSON object text of d as it is at the moment of the call,
\* kept as its set of key/value members (member order carries no meaning);
\* the nested msg dict becomes a nested object
JsonMembers(d) == {<<key, d[key]>> : key \in DOMAIN d}
Dumps(d) ==
    {<<key, IF key = "msg" THEN JsonMembers(d[key]) ELSE d[key]>> : key \in DOMAIN d}

\* reading a JSON object on the wire
Keys(m) == {p[1] : p \in m}
Get(m, key) == (CHOOSE p \in m : p[1] = key)[2]

BusWrite(reg, val) == [op |-> "write", addr |-> address, reg |-> reg, val |-> val]
BusRead(reg, val) == [op |-> "read", addr |-> address, reg |-> reg, val |-> val]

(***************************************************************************)
(* Sentinels of the model.                                                 *)
(***************************************************************************)
NotExited == -1
Unbound == -1
NoFloat == <<0, 0>>
NoDict == <<>>
NoException == "none"
\* the three running maxima while no value is bound to them
NoMax == <<>>

InitPcs == {"open_bus", "wake", "rd_gyro_cfg", "wr_gyro_cfg", "rd_acc_cfg",
            "wr_acc_cfg", "connect", "adv_acc", "adv_gyro", "start"}
LoopPcs == {"iter_start", "read", "debug_chk", "send_acc", "send_gyro",
            "delay", "sleep"}
EndPcs == {"stopped", "crashed"}

\* the states of the sampling loop's state machine
Phase ==
    IF pc \in InitPcs THEN "INIT"
    ELSE IF pc \in LoopPcs THEN "RUNNING"
    ELSE "STOPPED"

(***************************************************************************)
(* Initial state: the process has parsed its arguments.                    *)
(***************************************************************************)
Init ==
    /\ pc = "open_bus"
    /\ FS_SEL \in SelInputs
    /\ AFS_SEL \in SelInputs
    /\ debug \in BOOLEAN
    /\ delay \in DelayInputs
    /\ i2c_address \in AddressInputs
    /\ address = Unbound
    /\ GYRO_CONFIG = Unbound
    /\ ACCEL_CONFIG = Unbound
    /\ scale_factor_gyro = NoFloat
    /\ scale_factor_acc = NoFloat
    /\ \E g \in ConfigPrior, a \in ConfigPrior :
          regs = [r \in ConfigRegs |->
                    IF r = REG_GYRO_CONFIG THEN g
                    ELSE IF r = REG_ACCEL_CONFIG THEN a
                    ELSE 64]
    /\ busLog = <<>>
    /\ connected = FALSE
    /\ nconnect = 0
    /\ sent = <<>>
    /\ accel_dict = NoDict
    /\ gyro_dict = NoDict
    /\ iter = 0
    /\ sample \in 1..NSamples
    /\ k = 0
    /\ high = 0
    /\ raw = <<0, 0, 0, 0, 0, 0>>
    /\ now = 0
    /\ start_time = 0
    /\ prev_start = 0
    /\ elapsed = 0
    /\ curr_delay = 0
    /\ sleeps = <<>>
    /\ out = <<>>
    /\ exitCode = NotExited
    /\ raised = NoException
    /\ raisedAt = "nowhere"
    /\ init_max = NoMax
    /\ loop_max = NoMax
    /\ fin = <<>>
    /\ fout = <<>>

argVars == <<FS_SEL, AFS_SEL, debug, delay, i2c_address>>
fnVars == <<fin, fout>>
timeVars == <<now, start_time, prev_start, elapsed, curr_delay, sleeps>>
loopVars == <<iter, sample, k, high, raw, loop_max>>
dictVars == <<accel_dict, gyro_dict>>
netVars == <<connected, nconnect, sent>>
cfgVars == <<GYRO_CONFIG, ACCEL_CONFIG, scale_factor_gyro, scale_factor_acc,
            init_max>>
endVars == <<out, exitCode, raised, raisedAt>>

(***************************************************************************)
(* mpu6050_PI.__init__                                                     *)
(***************************************************************************)
\* lines 108-109
OpenBus ==
    /\ pc = "open_bus"
    /\ address' = HexDigits(i2c_address)
    /\ pc' = "wake"
    /\ UNCHANGED <<argVars, fnVars, timeVars, loopVars, dictVars, netVars,
                   cfgVars, endVars, regs, busLog>>

\* line 116
WakeUp ==
    /\ pc = "wake"
    /\ regs' = [regs EXCEPT ![power_mgmt_1] = 0]
    /\ busLog' = Append(busLog, BusWrite(power_mgmt_1, 0))
    /\ pc' = "rd_gyro_cfg"
    /\ UNCHANGED <<argVars, fnVars, timeVars, loopVars, dictVars, netVars,
                   cfgVars, endVars, address>>

\* line 118
ReadGyroConfig ==
    /\ pc = "rd_gyro_cfg"
    /\ GYRO_CONFIG' = regs[REG_GYRO_CONFIG]
    /\ busLog' = Append(busLog, BusRead(REG_GYRO_CONFIG, regs[REG_GYRO_CONFIG]))
    /\ pc' = "wr_gyro_cfg"
    /\ UNCHANGED <<argVars, fnVars, timeVars, loopVars, dictVars, netVars,
                   endVars, address, regs, ACCEL_CONFIG, scale_factor_gyro,
                   scale_factor_acc, init_max>>

\* lines 119-121
WriteGyroConfig ==
    /\ pc = "wr_gyro_cfg"
    /\ regs' = [regs EXCEPT ![REG_GYRO_CONFIG] = ConfigValue(GYRO_CONFIG, FS_SEL)]
    /\ busLog' = Append(busLog, BusWrite(REG_GYRO_CONFIG, ConfigValue(GYRO_CONFIG, FS_SEL)))
    /\ scale_factor_gyro' = GyroScale(FS_SEL)
    /\ pc' = "rd_acc_cfg"
    /\ UNCHANGED <<argVars, fnVars, timeVars, loopVars, dictVars, netVars,
                   endVars, address, GYRO_CONFIG, ACCEL_CONFIG, scale_factor_acc,
                   init_max>>

\* line 123
ReadAccelConfig ==
    /\ pc = "rd_acc_cfg"
    /\ ACCEL_CONFIG' = regs[REG_ACCEL_CONFIG]
    /\ busLog' = Append(busLog, BusRead(REG_ACCEL_CONFIG, regs[REG_ACCEL_CONFIG]))
    /\ pc' = "wr_acc_cfg"
    /\ UNCHANGED <<argVars, fnVars, timeVars, loopVars, dictVars, netVars,
                   endVars, address, regs, GYRO_CONFIG, scale_factor_gyro,
                   scale_factor_acc, init_max>>

\* lines 124-130; the three maxima bound on lines 128-130 are locals of
\* __init__, which send2ros cannot see
WriteAccelConfig ==
    /\ pc = "wr_acc_cfg"
    /\ regs' = [regs EXCEPT ![REG_ACCEL_CONFIG] = ConfigValue(ACCEL_CONFIG, AFS_SEL)]
    /\ busLog' = Append(busLog, BusWrite(REG_ACCEL_CONFIG, ConfigValue(ACCEL_CONFIG, AFS_SEL)))
    /\ scale_factor_acc' = AccelScale(AFS_SEL)
    /\ init_max' = <<0, 0, 0>>
    /\ pc' = "connect"
    /\ UNCHANGED <<argVars, fnVars, timeVars, loopVars, dictVars, netVars,
                   endVars, address, GYRO_CONFIG, ACCEL_CONFIG, scale_factor_gyro>>

\* line 134
Connect ==
    /\ pc = "connect"
    /\ connected' = TRUE
    /\ nconnect' = nconnect + 1
    /\ pc' = "adv_acc"
    /\ UNCHANGED <<argVars, fnVars, timeVars, loopVars, dictVars, cfgVars,
                   endVars, address, regs, busLog, sent>>

\* lines 137-140
AdvertiseAccel ==
    /\ pc = "adv_acc"
    /\ sent' = Append(sent, Dumps(AdvertiseMsg("IMU_WS_AC", "/MPU6050/Accel")))
    /\ pc' = "adv_gyro"
    /\ UNCHANGED <<argVars, fnVars, timeVars, loopVars, dictVars, cfgVars,
                   endVars, address, regs, busLog, connected, nconnect>>

\* a variant of AdvertiseGyro that reuses the id of the accel advertise
AdvertiseGyro_sameId ==
    /\ pc = "adv_gyro"
    /\ sent' = Append(sent, Dumps(AdvertiseMsg("IMU_WS_AC", "/MPU6050/Gyro")))
    /\ pc' = "start"
    /\ UNCHANGED <<argVars, fnVars, timeVars, loopVars, dictVars, cfgVars,
                   endVars, address, regs, busLog, connected, nconnect>>

\* lines 142-145
AdvertiseGyro ==
    /\ pc = "adv_gyro"
    /\ sent' = Append(sent, Dumps(AdvertiseMsg("IMU_WS_GY", "/MPU6050/Gyro")))
    /\ pc' = "start"
    /\ UNCHANGED <<argVars, fnVars, timeVars, loopVars, dictVars, cfgVars,
                   endVars, address, regs, busLog, connected, nconnect>>

\* lines 147-151 and 182: the two records are made, send2ros is entered and
\* announces itself; the next step is the first one inside the try block
Start ==
    /\ pc = "start"
    /\ accel_dict' = PublishDict("MPU_accel", "/MPU6050/Accel")
    /\ gyro_dict' = PublishDict("MPU_gyro", "/MPU6050/Gyro")
    /\ out' = Append(out, "mpu6050_PI has started!")
    /\ pc' = "iter_start"
    /\ UNCHANGED <<argVars, fnVars, timeVars, loopVars, netVars, cfgVars,
                   address, regs, busLog, exitCode, raised, raisedAt>>

(***************************************************************************)
(* mpu6050_PI.send2ros: the sampling loop                                  *)
(***************************************************************************)
\* raw value / scale factor (int / float in Python: true division)
Scaled(v, scale) == RatDiv(Float(v), scale)

\* a variant of SetMsg that stores under the record itself, not under msg
SetMsg_topLevel(d, vx, vy, vz, scale) ==
    [key \in DOMAIN d \cup {"x", "y", "z"} |->
        IF key = "x" THEN Scaled(vx, scale)
        ELSE IF key = "y" THEN Scaled(vy, scale)
        ELSE IF key = "z" THEN Scaled(vz, scale)
        ELSE d[key]]

\* a variant of SetMsg that overwrites x and leaves y and z as they were
SetMsg_onlyX(d, vx, vy, vz, scale) ==
    [d EXCEPT !.msg.x = Scaled(vx, scale)]

\* lines 193-195 and 201-203: the three payload fields of a record overwritten
\* from three raw values
SetMsg(d, vx, vy, vz, scale) ==
    [d EXCEPT !.msg = [x |-> Scaled(vx, scale),
                       y |-> Scaled(vy, scale),
                       z |-> Scaled(vz, scale)]]

\* a variant of IterStart that stamps the start the schedule asked for, one
\* delay after the start before
IterStart_scheduled ==
    /\ pc = "iter_start"
    /\ iter < MaxIter
    /\ iter' = iter + 1
    /\ prev_start' = start_time
    /\ start_time' = IF iter = 0 THEN now ELSE start_time + delay
    /\ sample' = (sample % NSamples) + 1
    /\ k' = 0
    /\ pc' = "read"
    /\ UNCHANGED <<argVars, fnVars, dictVars, netVars, cfgVars, endVars,
                   address, regs, busLog, high, raw, loop_max, now, elapsed,
                   curr_delay, sleeps>>

\* line 187; the device has moved on to its next snapshot, which it presents
\* during the iteration
IterStart ==
    /\ pc = "iter_start"
    /\ iter < MaxIter
    /\ iter' = iter + 1
    /\ prev_start' = start_time
    /\ start_time' = now
    /\ sample' = (sample % NSamples) + 1
    /\ k' = 0
    /\ pc' = "read"
    /\ UNCHANGED <<argVars, fnVars, dictVars, netVars, cfgVars, endVars,
                   address, regs, busLog, high, raw, loop_max, now, elapsed,
                   curr_delay, sleeps>>

\* lines 189-203: one read_byte_data of read_word (lines 154, 155).  The low
\* byte completes a word, which read_word_2c decodes into the axis' local;
\* the third word of a sensor is followed by the stores into its record.
ReadAxisByte ==
    /\ pc = "read"
    /\ LET adr == RegOf(k)
           b == SampleByte(sample, adr)
           axis == (k \div 2) + 1
           word == read_word_2c(high, b)
           raw1 == [raw EXCEPT ![axis] = word]
       IN  /\ busLog' = Append(busLog, BusRead(adr, b))
           /\ IF k % 2 = 0
              THEN /\ high' = b
                   /\ UNCHANGED <<raw, dictVars>>
              ELSE /\ high' = 0
                   /\ raw' = raw1
                   /\ gyro_dict' =
                        IF k = 5
                        THEN SetMsg(gyro_dict, raw1[1], raw1[2], raw1[3], scale_factor_gyro)
                        ELSE gyro_dict
                   /\ accel_dict' =
                        IF k = 11
                        THEN SetMsg(accel_dict, raw1[4], raw1[5], raw1[6], scale_factor_acc)
                        ELSE accel_dict
    /\ k' = k + 1
    /\ pc' = IF k = 11 THEN "debug_chk" ELSE "read"
    /\ UNCHANGED <<argVars, fnVars, timeVars, netVars, cfgVars, endVars,
                   address, regs, iter, sample, loop_max>>

\* lines 248-249: except KeyboardInterrupt, entered with o printed so far;
\* send2ros and __init__ return and the script ends
ExceptKeyboardInterrupt(o) ==
    /\ out' = Append(o, "mpu6050_PI has finished!")
    /\ exitCode' = 0
    /\ pc' = "stopped"

\* a variant of ExceptAny that raises again without printing
ExceptAny_silent(o) ==
    /\ out' = o
    /\ exitCode' = 1
    /\ pc' = "stopped"

\* a variant of ExceptAny that prints and goes on with the next iteration
ExceptAny_goOn(o) ==
    /\ out' = Append(o, "We have a problem...")
    /\ exitCode' = exitCode
    /\ pc' = "iter_start"

\* lines 251-253: the bare except prints and raises again; nothing above
\* catches it, so the interpreter ends the process with status 1
ExceptAny(o) ==
    /\ out' = Append(o, "We have a problem...")
    /\ exitCode' = 1
    /\ pc' = "stopped"

\* a variant of Uncaught that swallows the exception and goes on to open the
\* session with whatever configuration was done
Uncaught_partialInit(o) ==
    /\ out' = o
    /\ exitCode' = exitCode
    /\ pc' = "connect"

\* an exception outside the try block of send2ros: nothing catches it
Uncaught(o) ==
    /\ out' = o
    /\ exitCode' = 1
    /\ pc' = "crashed"

\* a variant of Raise whose try statement lacks the KeyboardInterrupt clause
Raise_bareExceptOnly(exc, o) ==
    /\ raised' = exc
    /\ raisedAt' = pc
    /\ IF pc \in LoopPcs THEN ExceptAny(o) ELSE Uncaught(o)

\* exception exc raised at pc, with o printed so far: the try statement of
\* lines 184-253 covers the loop and nothing else
Raise(exc, o) ==
    /\ raised' = exc
    /\ raisedAt' = pc
    /\ IF pc \in LoopPcs
       THEN IF exc = "KeyboardInterrupt"
            THEN ExceptKeyboardInterrupt(o)
            ELSE ExceptAny(o)
       ELSE Uncaught(o)

\* lines 206-238: with debug set the block prints the gyro values and then
\* evaluates accel_xout_scaled (line 220), a name bound nowhere: NameError.
\* The maxima of send2ros (lines 221, 224, 227) are never reached.
DebugBlock ==
    /\ pc = "debug_chk"
    /\ IF debug
       THEN Raise("NameError", Append(out, "gyro data"))
       ELSE /\ pc' = "send_acc"
            /\ UNCHANGED endVars
    /\ UNCHANGED <<argVars, fnVars, timeVars, loopVars, dictVars, netVars,
                   cfgVars, address, regs, busLog>>

\* a variant of SendAccel that sends the gyro record
SendAccel_gyroRecord ==
    /\ pc = "send_acc"
    /\ sent' = Append(sent, Dumps(gyro_dict))
    /\ pc' = "send_gyro"
    /\ UNCHANGED <<argVars, fnVars, timeVars, loopVars, dictVars, cfgVars,
                   endVars, address, regs, busLog, connected, nconnect>>

\* line 240
SendAccel ==
    /\ pc = "send_acc"
    /\ sent' = Append(sent, Dumps(accel_dict))
    /\ pc' = "send_gyro"
    /\ UNCHANGED <<argVars, fnVars, timeVars, loopVars, dictVars, cfgVars,
                   endVars, address, regs, busLog, connected, nconnect>>

\* a variant of SendGyro that sends the accel record a second time
SendGyro_accelRecord ==
    /\ pc = "send_gyro"
    /\ sent' = Append(sent, Dumps(accel_dict))
    /\ pc' = "delay"
    /\ UNCHANGED <<argVars, fnVars, timeVars, loopVars, dictVars, cfgVars,
                   endVars, address, regs, busLog, connected, nconnect>>

\* line 242
SendGyro ==
    /\ pc = "send_gyro"
    /\ sent' = Append(sent, Dumps(gyro_dict))
    /\ pc' = "delay"
    /\ UNCHANGED <<argVars, fnVars, timeVars, loopVars, dictVars, cfgVars,
                   endVars, address, regs, busLog, connected, nconnect>>

\* a variant of ComputeDelay that sleeps when curr_delay >= 0
ComputeDelay_ge ==
    /\ pc = "delay"
    /\ \E lat \in 0..MaxLatency :
          /\ now' = now + lat
          /\ elapsed' = now' - start_time
          /\ curr_delay' = delay - elapsed'
    /\ IF curr_delay' >= 0
       THEN /\ sleeps' = Append(sleeps, curr_delay')
            /\ pc' = "sleep"
       ELSE /\ UNCHANGED sleeps
            /\ pc' = "iter_start"
    /\ UNCHANGED <<argVars, fnVars, loopVars, dictVars, netVars, cfgVars,
                   endVars, address, regs, busLog, start_time, prev_start>>

\* lines 244-246 up to the call of time.sleep: the reads and sends of the
\* iteration have taken lat ticks
ComputeDelay ==
    /\ pc = "delay"
    /\ \E lat \in 0..MaxLatency :
          /\ now' = now + lat
          /\ elapsed' = now' - start_time
          /\ curr_delay' = delay - elapsed'
    /\ IF curr_delay' > 0
       THEN /\ sleeps' = Append(sleeps, curr_delay')
            /\ pc' = "sleep"
       ELSE /\ UNCHANGED sleeps
            /\ pc' = "iter_start"
    /\ UNCHANGED <<argVars, fnVars, loopVars, dictVars, netVars, cfgVars,
                   endVars, address, regs, busLog, start_time, prev_start>>

\* line 246: time.sleep returns after the requested time
Sleep ==
    /\ pc = "sleep"
    /\ now' = now + curr_delay
    /\ pc' = "iter_start"
    /\ UNCHANGED <<argVars, fnVars, loopVars, dictVars, netVars, cfgVars,
                   endVars, address, regs, busLog, start_time, prev_start,
                   elapsed, curr_delay, sleeps>>

(***************************************************************************)
(* The environment: failures of the bus and of the bridge, and the         *)
(* operator's interrupt.                                                   *)
(***************************************************************************)
\* the steps that call the bus or the bridge
BusPcs == {"open_bus", "wake", "rd_gyro_cfg", "wr_gyro_cfg", "rd_acc_cfg",
           "wr_acc_cfg", "read"}
NetPcs == {"connect", "adv_acc", "adv_gyro", "send_acc", "send_gyro"}

\* the call at pc raises (IOError from smbus, an error of websocket): inside
\* the try block the bare except takes it, elsewhere nothing does
IOFails ==
    /\ pc \in BusPcs \cup NetPcs
    /\ Raise("IOError", out)
    /\ UNCHANGED <<argVars, fnVars, timeVars, loopVars, dictVars, netVars,
                   cfgVars, address, regs, busLog>>

\* SIGINT: KeyboardInterrupt is raised at the current position
Interrupt ==
    /\ pc \in InitPcs \cup LoopPcs
    /\ Raise("KeyboardInterrupt", out)
    /\ UNCHANGED <<argVars, fnVars, timeVars, loopVars, dictVars, netVars,
                   cfgVars, address, regs, busLog>>

Next ==
    \/ OpenBus
    \/ WakeUp
    \/ ReadGyroConfig
    \/ WriteGyroConfig
    \/ ReadAccelConfig
    \/ WriteAccelConfig
    \/ Connect
    \/ AdvertiseAccel
    \/ AdvertiseGyro
    \/ Start
    \/ IterStart
    \/ ReadAxisByte
    \/ DebugBlock
    \/ SendAccel
    \/ SendGyro
    \/ ComputeDelay
    \/ Sleep
    \/ IOFails
    \/ Interrupt

Spec == Init /\ [][Next]_vars

(***************************************************************************)
(* The functions of the driver on their own: SpecFn applies one function   *)
(* to one input.  The process itself does not run.                         *)
(***************************************************************************)
\* a byte as read_byte_data returns it
Bytes == 0..255

FnInputs == {<<"read_word_2c", h, l>> : h \in Bytes, l \in Bytes}

InitFn ==
    /\ fin \in FnInputs
    /\ fout = <<>>
    /\ pc = "fn"
    /\ FS_SEL = 0
    /\ AFS_SEL = 3
    /\ debug = FALSE
    /\ delay = 0
    /\ i2c_address = 68
    /\ address = Unbound
    /\ GYRO_CONFIG = Unbound
    /\ ACCEL_CONFIG = Unbound
    /\ scale_factor_gyro = NoFloat
    /\ scale_factor_acc = NoFloat
    /\ regs = [r \in ConfigRegs |-> 0]
    /\ busLog = <<>>
    /\ connected = FALSE
    /\ nconnect = 0
    /\ sent = <<>>
    /\ accel_dict = NoDict
    /\ gyro_dict = NoDict
    /\ iter = 0
    /\ sample = 1
    /\ k = 0
    /\ high = 0
    /\ raw = <<0, 0, 0, 0, 0, 0>>
    /\ now = 0
    /\ start_time = 0
    /\ prev_start = 0
    /\ elapsed = 0
    /\ curr_delay = 0
    /\ sleeps = <<>>
    /\ out = <<>>
    /\ exitCode = NotExited
    /\ raised = NoException
    /\ raisedAt = "nowhere"
    /\ init_max = NoMax
    /\ loop_max = NoMax

progVars == <<pc, argVars, timeVars, loopVars, dictVars, netVars, cfgVars,
              endVars, address, regs, busLog>>

\* read_word_2c on the bytes fin[2] (register adr) and fin[3] (register adr+1)
CallReadWord2c ==
    /\ fin[1] = "read_word_2c"
    /\ fout = <<>>
    /\ fout' = <<read_word_2c(fin[2], fin[3])>>
    /\ UNCHANGED <<fin, progVars>>

NextFn == CallReadWord2c

SpecFn == InitFn /\ [][NextFn]_vars

(***************************************************************************)
(* Properties.                                                             *)
(***************************************************************************)
TopicAccel == "/MPU6050/Accel"
TopicGyro == "/MPU6050/Gyro"

IsPublish(m) == Get(m, "op") = "publish"
IsAdvertise(m) == Get(m, "op") = "advertise"

\* the publish messages sent so far, in order
Publishes == SelectSeq(sent, IsPublish)

\* topic t has been advertised among the first n messages
AdvertisedWithin(t, n) ==
    \E j \in 1..n : IsAdvertise(sent[j]) /\ Get(sent[j], "topic") = t

\* C1: on each of the two topics no publish message is sent before the
\* advertise message of that topic, and both advertise messages have been sent
\* by the time the sampling loop runs its first iteration.
C1_AdvertiseBeforePublish ==
    /\ \A i \in 1..Len(sent) :
          IsPublish(sent[i]) =>
             /\ Get(sent[i], "topic") \in {TopicAccel, TopicGyro}
             /\ AdvertisedWithin(Get(sent[i], "topic"), i - 1)
    /\ pc \in LoopPcs =>
          /\ AdvertisedWithin(TopicAccel, Len(sent))
          /\ AdvertisedWithin(TopicGyro, Len(sent))

\* C1 witness: an iteration has published on both topics
C1_Witness ==
    /\ pc = "delay"
    /\ \E i, j \in 1..Len(sent) :
          /\ IsPublish(sent[i]) /\ Get(sent[i], "topic") = TopicAccel
          /\ IsPublish(sent[j]) /\ Get(sent[j], "topic") = TopicGyro

\* C2: for all bytes high, low returned for adr and adr+1, read_word_2c gives
\* v when v < 0x8000 and v - 65536 otherwise, v = (high << 8) | low; the result
\* lies in -32768..32767; 0x0010 gives 16, 0xFFF0 gives -16, 0x0100 gives 256.
C2_TwosComplement ==
    (fin # <<>> /\ fin[1] = "read_word_2c" /\ fout # <<>>) =>
        LET v == BitOr(Shl(fin[2], 8), fin[3])
        IN  /\ fout[1] = (IF v < 32768 THEN v ELSE v - 65536)
            /\ fout[1] \in -32768..32767
            /\ (fin[2] = 0 /\ fin[3] = 16) => fout[1] = 16
            /\ (fin[2] = 255 /\ fin[3] = 240) => fout[1] = -16
            /\ (fin[2] = 1 /\ fin[3] = 0) => fout[1] = 256

\* C2 witness: the word 0x8000, the smallest one decoded as negative
C2_Witness ==
    /\ fin = <<"read_word_2c", 128, 0>>
    /\ fout = <<-32768>>

\* C3: in every iteration the accel message is sent before the gyro message;
\* the publish messages of a run alternate accel, gyro, accel, gyro, ...
\* starting with accel, and no gyro message is sent without the accel
\* message of its iteration before it.
C3_AccelThenGyro ==
    /\ \A i \in 1..Len(Publishes) :
          Get(Publishes[i], "topic") = IF i % 2 = 1 THEN TopicAccel ELSE TopicGyro
    /\ pc = "send_acc" => Len(Publishes) = 2 * (iter - 1)
    /\ pc = "send_gyro" => Len(Publishes) = 2 * iter - 1
    /\ pc \in {"delay", "sleep"} => Len(Publishes) = 2 * iter

\* C3 witness: two iterations have published
C3_Witness ==
    /\ Len(Publishes) = 4
    /\ iter = 2

\* C4: an interrupt that arrives while the loop is RUNNING moves it to
\* STOPPED, prints the shutdown notice and ends the process with exit code 0;
\* no bus operation and no send happens with or after it.
C4_InterruptStopsCleanly ==
    /\ [][(pc \in LoopPcs /\ raised = NoException /\ raised' = "KeyboardInterrupt") =>
             /\ pc' = "stopped"
             /\ out' = Append(out, "mpu6050_PI has finished!")
             /\ exitCode' = 0
             /\ busLog' = busLog
             /\ sent' = sent]_vars
    /\ [][raised = "KeyboardInterrupt" =>
             /\ pc' = pc
             /\ exitCode' = exitCode
             /\ busLog' = busLog
             /\ sent' = sent]_vars

\* C4 witness: the interrupt arrived during the compensating sleep
C4_Witness ==
    /\ raised = "KeyboardInterrupt"
    /\ raisedAt = "sleep"
    /\ pc = "stopped"
    /\ exitCode = 0

\* C5: any error other than the interrupt raised inside the loop moves it to
\* STOPPED: the diagnostic is printed, the process exits non-zero, no further
\* bus operation or send is performed and the loop is never RUNNING again.
C5_ErrorStopsLoop ==
    /\ [][(pc \in LoopPcs /\ raised = NoException
              /\ raised' \notin {NoException, "KeyboardInterrupt"}) =>
             /\ pc' = "stopped"
             /\ out'[Len(out')] = "We have a problem..."
             /\ exitCode' > 0
             /\ busLog' = busLog
             /\ sent' = sent]_vars
    /\ [][(raised \notin {NoException, "KeyboardInterrupt"}) =>
             /\ pc' \notin LoopPcs
             /\ exitCode' = exitCode
             /\ busLog' = busLog
             /\ sent' = sent]_vars

\* C5 witness: the twelfth register read of the second iteration failed
C5_Witness ==
    /\ raised = "IOError"
    /\ raisedAt = "read"
    /\ k = 11
    /\ iter = 2
    /\ pc = "stopped"
    /\ exitCode = 1

\* C6: a selector outside 0..3 is rejected before any bus operation and
\* before the bridge is connected.
C6_ConfigRejected ==
    (FS_SEL \notin 0..3 \/ AFS_SEL \notin 0..3) =>
        /\ busLog = <<>>
        /\ nconnect = 0

\* the axis registers 0x3B..0x48
AxisRegisterRange == 59..72

\* C7: construction performs exactly these bus operations, in this order:
\* write 0 to 0x6B; read 0x1B; write 0x1B with (value read | (FS_SEL << 3));
\* read 0x1C; write 0x1C with (value read | (AFS_SEL << 3)).  No axis register
\* is read and the bridge is not connected before all five are done.
C7_ConstructionOrder ==
    LET n == Len(busLog)
        IsOp(i, o, r) == busLog[i].op = o /\ busLog[i].reg = r
    IN  /\ n >= 1 => IsOp(1, "write", 107) /\ busLog[1].val = 0
        /\ n >= 2 => IsOp(2, "read", 27)
        /\ n >= 3 => IsOp(3, "write", 27)
                        /\ busLog[3].val = BitOr(busLog[2].val, FS_SEL * 8)
        /\ n >= 4 => IsOp(4, "read", 28)
        /\ n >= 5 => IsOp(5, "write", 28)
                        /\ busLog[5].val = BitOr(busLog[4].val, AFS_SEL * 8)
        /\ \A i \in 1..n :
              (busLog[i].reg \in AxisRegisterRange) <=> i > 5
        /\ (connected \/ nconnect > 0 \/ pc \in {"connect"} \cup NetPcs) => n >= 5

\* C7 witness: construction is through with the bus, on a device whose
\* gyro-config register already had range bits set
C7_Witness ==
    /\ pc = "adv_acc"
    /\ connected
    /\ Len(busLog) = 5
    /\ GYRO_CONFIG = 24
    /\ FS_SEL = 1

\* C8: for FS_SEL in 0..3 the gyro scale factor is 131.0, 65.5, 32.75, 16.375
\* and for AFS_SEL in 0..3 the accel scale factor is 2048, 1024, 512, 256;
\* once set at construction they hold these values for the rest of the run.
C8_ScaleFactors ==
    LET gyroTable == <<Rat(131000, 1000), Rat(65500, 1000),
                       Rat(32750, 1000), Rat(16375, 1000)>>
        accTable == <<Float(2048), Float(1024), Float(512), Float(256)>>
    IN  /\ (FS_SEL \in 0..3 /\ scale_factor_gyro # NoFloat) =>
               scale_factor_gyro = gyroTable[FS_SEL + 1]
        /\ (AFS_SEL \in 0..3 /\ scale_factor_acc # NoFloat) =>
               scale_factor_acc = accTable[AFS_SEL + 1]
        /\ (pc \in LoopPcs \cup {"stopped"}) =>
               scale_factor_gyro # NoFloat /\ scale_factor_acc # NoFloat

\* C8 witness: the loop runs with FS_SEL = 3 and AFS_SEL = 0
C8_Witness ==
    /\ pc = "send_gyro"
    /\ iter = 2
    /\ FS_SEL = 3
    /\ AFS_SEL = 0

\* C9: at the end of an iteration the loop sleeps for exactly delay - elapsed
\* when that is > 0 and does not sleep otherwise; sleep is never asked for a
\* zero or negative time; the time between two iteration starts is
\* max(delay, elapsed).
C9_CompensatingSleep ==
    /\ \A i \in 1..Len(sleeps) : sleeps[i] > 0
    /\ pc = "sleep" =>
          /\ curr_delay = delay - elapsed
          /\ curr_delay > 0
          /\ sleeps[Len(sleeps)] = curr_delay
    /\ (pc = "iter_start" /\ iter >= 1) =>
          /\ now - start_time = Max(delay, elapsed)
          /\ elapsed >= delay => curr_delay <= 0
    /\ (pc = "read" /\ iter >= 2) =>
          start_time - prev_start = Max(delay, elapsed)
    /\ Len(sleeps) <= iter
    /\ delay <= 0 => sleeps = <<>>

\* C9 witness: the first iteration was short and slept, the second overran
C9_Witness ==
    /\ pc = "iter_start"
    /\ iter = 2
    /\ delay > 0
    /\ Len(sleeps) = 1
    /\ elapsed > delay

PublishKeys == {"op", "id", "topic", "msg"}
PayloadKeys == {"x", "y", "z"}

\* d is one of the two reused records, intact
IntactRecord(d, id, topic) ==
    /\ DOMAIN d = PublishKeys
    /\ d.op = "publish"
    /\ d.id = id
    /\ d.topic = topic
    /\ DOMAIN d.msg = PayloadKeys

\* C10: every publish message sent has exactly the keys op, id, topic, msg,
\* with op "publish" and msg of exactly the keys x, y, z, and its (id, topic)
\* is ("MPU_accel", "/MPU6050/Accel") or ("MPU_gyro", "/MPU6050/Gyro"); the
\* stores of the loop leave op, id, topic and the key sets of the two reused
\* records as they were made.
C10_MessageShape ==
    /\ \A i \in 1..Len(sent) :
          /\ IsPublish(sent[i]) \/ IsAdvertise(sent[i])
          /\ IsPublish(sent[i]) =>
                /\ Keys(sent[i]) = PublishKeys
                /\ Keys(Get(sent[i], "msg")) = PayloadKeys
                /\ <<Get(sent[i], "id"), Get(sent[i], "topic")>> \in
                      {<<"MPU_accel", TopicAccel>>, <<"MPU_gyro", TopicGyro>>}
    /\ accel_dict # NoDict => IntactRecord(accel_dict, "MPU_accel", TopicAccel)
    /\ gyro_dict # NoDict => IntactRecord(gyro_dict, "MPU_gyro", TopicGyro)

\* C10 witness: both records have been overwritten twice and sent twice
C10_Witness ==
    /\ pc = "delay"
    /\ iter = 2
    /\ Len(Publishes) = 4
    /\ accel_dict.msg.x # Zero
    /\ gyro_dict.msg.x # Zero

\* the run was ended by something other than the program's own code: the
\* operator's interrupt or a failing bus or bridge call
EndedFromOutside == raised \in {"KeyboardInterrupt", "IOError"}

\* C11: the debug flag changes only what is printed: a run with debug set
\* sends what a run without it sends for the same register values; with
\* debug set every iteration still gets to the two sends, so the debug block
\* never ends the run and an iteration whose reads are done publishes twice.
C11_DebugOnlyPrints ==
    (debug /\ ~EndedFromOutside) =>
        /\ raised = NoException
        /\ pc \notin EndPcs
        /\ pc \in {"delay", "sleep"} => Len(Publishes) = 2 * iter

Diagnostic == "We have a problem..."

\* line o has been printed
Printed(o) == \E i \in 1..Len(out) : out[i] = o

\* a fatal error has ended the process
EndedByError == pc \in EndPcs /\ raised \notin {NoException, "KeyboardInterrupt"}

\* C12 as stated: every fatal error, in whichever phase it occurs, has the
\* program's diagnostic printed before the process ends.
C12_EveryFatalErrorPrints ==
    EndedByError => Printed(Diagnostic)

\* C12 as amended: a fatal error raised inside the loop has the diagnostic
\* printed, as the last line, before the process ends with a non-zero status;
\* a fatal error during construction ends the process with a non-zero status
\* and without the diagnostic.
C12_LoopErrorsPrint ==
    EndedByError =>
        /\ exitCode > 0
        /\ raisedAt \in LoopPcs => (out # <<>> /\ out[Len(out)] = Diagnostic)
        /\ raisedAt \notin LoopPcs => ~Printed(Diagnostic)

\* C12 witness: the accel send of the second iteration failed and the
\* diagnostic is out
C12_Witness ==
    /\ EndedByError
    /\ raisedAt = "send_acc"
    /\ iter = 2
    /\ Printed(Diagnostic)

\* the construction steps that call the bus, in program order
ConstructionBusSteps ==
    <<"open_bus", "wake", "rd_gyro_cfg", "wr_gyro_cfg", "rd_acc_cfg", "wr_acc_cfg">>

\* the number of bus operations done when construction step p begins
OpsBefore(p) ==
    LET i == CHOOSE j \in 1..Len(ConstructionBusSteps) : ConstructionBusSteps[j] = p
    IN  IF i <= 2 THEN 0 ELSE i - 2

\* C13: a failing construction-time bus operation is fatal and nothing after
\* it is performed: the remaining configuration steps are skipped, no session
\* to the bridge is opened, no message is ever sent and the loop is never
\* RUNNING.
C13_ConstructionFailureIsFatal ==
    (raised = "IOError" /\ raisedAt \in BusPcs \ LoopPcs) =>
        /\ pc = "crashed"
        /\ exitCode > 0
        /\ Len(busLog) = OpsBefore(raisedAt)
        /\ ~connected
        /\ nconnect = 0
        /\ sent = <<>>
        /\ iter = 0
        /\ ~Printed("mpu6050_PI has started!")

\* C13 witness: the write to the gyro-config register failed
C13_Witness ==
    /\ raised = "IOError"
    /\ raisedAt = "wr_gyro_cfg"
    /\ pc = "crashed"
    /\ Len(busLog) = 2

\* the advertise messages sent so far, in order
Advertises == SelectSeq(sent, IsAdvertise)

\* m is the advertise message of topic t under id i, typed as a Vector3
IsAdvertiseOf(m, i, t) ==
    /\ Keys(m) = {"op", "id", "topic", "type"}
    /\ Get(m, "op") = "advertise"
    /\ Get(m, "id") = i
    /\ Get(m, "topic") = t
    /\ Get(m, "type") = "geometry_msgs/Vector3"

\* the process got into the loop at some time
ReachedRunning == pc \in LoopPcs \/ pc = "stopped"

\* C14: in a run that reaches RUNNING exactly two advertise messages are sent
\* over the whole run, one for /MPU6050/Accel (id IMU_WS_AC) and one for
\* /MPU6050/Gyro (id IMU_WS_GY), both of type geometry_msgs/Vector3; none is
\* sent from inside the loop and the session is opened exactly once.
C14_TwoAdvertisesOneSession ==
    ReachedRunning =>
        /\ Len(Advertises) = 2
        /\ IsAdvertiseOf(sent[1], "IMU_WS_AC", TopicAccel)
        /\ IsAdvertiseOf(sent[2], "IMU_WS_GY", TopicGyro)
        /\ \A i \in 3..Len(sent) : IsPublish(sent[i])
        /\ nconnect = 1
        /\ connected

\* C14 witness: two iterations have published after the two advertises
C14_Witness ==
    /\ pc = "iter_start"
    /\ iter = 2
    /\ Len(sent) = 6
    /\ Len(Advertises) = 2

\* the bus operations construction performs
ConstructionOps == 5
\* the register reads of one iteration
ReadsPerIter == 12

\* the n-th bus operation of iteration j
IterReads(j, n) == busLog[ConstructionOps + ReadsPerIter * (j - 1) + n]

\* the registers an iteration reads, in order: gyro X, Y, Z then accel X, Y, Z,
\* each high byte then low byte
IterRegisterOrder == <<67, 68, 69, 70, 71, 72, 59, 60, 61, 62, 63, 64>>

\* the byte iteration j got from its n-th read
ByteRead(j, n) == IterReads(j, n).val

\* the signed value of the 16-bit word with high byte h and low byte l
Signed16(h, l) ==
    LET v == 256 * h + l
    IN  IF v >= 32768 THEN v - 65536 ELSE v

\* equality of two fractions with positive denominators
RatEq(a, b) == a[1] * b[2] = b[1] * a[2]

\* the value iteration j read from the axis whose high byte was its n-th
\* read, divided by scale: a fraction, not reduced
AxisValue(j, n, scale) ==
    <<Signed16(ByteRead(j, n), ByteRead(j, n + 1)) * scale[2], scale[1]>>

\* field f of the payload of publish message m
Field(m, f) == Get(Get(m, "msg"), f)

\* C15: a publish message carries only data of its own iteration: its x, y, z
\* are the values read in that iteration from 0x43, 0x45, 0x47 (gyro) or
\* 0x3B, 0x3D, 0x3F (accel), decoded and divided by the sensor's scale factor;
\* the 12 byte reads of the iteration, in their order, precede both sends.
C15_OwnIterationData ==
    LET pub == Publishes
    IN  /\ \A j \in 1..((Len(pub) + 1) \div 2) :
              /\ Len(busLog) >= ConstructionOps + ReadsPerIter * j
              /\ \A n \in 1..ReadsPerIter :
                    /\ IterReads(j, n).op = "read"
                    /\ IterReads(j, n).reg = IterRegisterOrder[n]
        /\ \A i \in 1..Len(pub) :
              LET j == (i + 1) \div 2
                  m == pub[i]
                  accel == Get(m, "topic") = TopicAccel
                  payload == Get(m, "msg")
                  \* reads 1..6 are the gyro's bytes, 7..12 the accel's
                  base == IF accel THEN 7 ELSE 1
                  scale == IF accel THEN scale_factor_acc
                           ELSE scale_factor_gyro
              IN  /\ RatEq(Get(payload, "x"), AxisValue(j, base, scale))
                  /\ RatEq(Get(payload, "y"), AxisValue(j, base + 2, scale))
                  /\ RatEq(Get(payload, "z"), AxisValue(j, base + 4, scale))

\* C15 witness: the second iteration has sent both messages, and their
\* fields differ from those of the first iteration and from 0.0
C15_Witness ==
    /\ Len(Publishes) = 4
    /\ \A f \in {"x", "y", "z"} :
          /\ Field(Publishes[3], f) \notin {Zero, Field(Publishes[1], f)}
          /\ Field(Publishes[4], f) \notin {Zero, Field(Publishes[2], f)}

\* C16: lost cycles are not caught up: whatever the time the iteration before
\* took, an iteration stamps its start with the time it really starts, does
\* one set of reads and one accel and one gyro send, and computes its sleep
\* from its own elapsed time alone.
C16_NoCatchUp ==
    /\ pc = "read" => start_time = now
    /\ (pc = "read" /\ iter >= 2 /\ elapsed > delay) =>
          start_time - prev_start = elapsed
    /\ pc = "sleep" =>
          /\ curr_delay = delay - (now - start_time)
          /\ curr_delay \in 1..delay
    /\ (pc \in {"iter_start", "delay", "sleep"} /\ iter >= 1) =>
          /\ Len(busLog) = ConstructionOps + ReadsPerIter * iter
          /\ Len(Publishes) = 2 * iter

\* C16 witness: the first iteration took three times the delay; the second
\* one has read and sent once and sleeps the full delay
C16_Witness ==
    /\ pc = "sleep"
    /\ iter = 2
    /\ delay = 1
    /\ start_time - prev_start = 3
    /\ curr_delay = 1
    /\ Len(Publishes) = 4
    /\ Len(busLog) = ConstructionOps + ReadsPerIter * 2

\* a <= b on fractions with positive denominators
RatLeq(a, b) == a[1] * b[2] <= b[1] * a[2]

\* C17: with debug set the three running maxima of the scaled accel axes are
\* bound while the loop is RUNNING, to 0 when it is entered; they are never
\* read unbound (no NameError ends the run); and once the debug block of an
\* iteration is through, each is >= the scaled accel value of its axis.
C17_RunningMaxima ==
    (debug /\ ReachedRunning) =>
        /\ raised # "NameError"
        /\ loop_max # NoMax
        /\ iter = 0 => loop_max = <<Zero, Zero, Zero>>
        /\ pc \in {"send_acc", "send_gyro", "delay", "sleep"} =>
              /\ RatLeq(accel_dict.msg.x, loop_max[1])
              /\ RatLeq(accel_dict.msg.y, loop_max[2])
              /\ RatLeq(accel_dict.msg.z, loop_max[3])

(***************************************************************************)
(* The process over a range of --i2c_address values: SpecAddr runs the     *)
(* same steps as Spec with the selectors fixed to their defaults.          *)
(***************************************************************************)
\* --i2c_address values tried: one, two and three decimal digits
AddressRange == {0, 9, 10, 68, 69, 99, 104, 119}

InitAddr ==
    /\ pc = "open_bus"
    /\ FS_SEL = 0
    /\ AFS_SEL = 3
    /\ debug \in BOOLEAN
    /\ delay \in DelayInputs
    /\ i2c_address \in AddressRange
    /\ address = Unbound
    /\ GYRO_CONFIG = Unbound
    /\ ACCEL_CONFIG = Unbound
    /\ scale_factor_gyro = NoFloat
    /\ scale_factor_acc = NoFloat
    /\ regs = [r \in ConfigRegs |-> IF r = power_mgmt_1 THEN 64 ELSE 0]
    /\ busLog = <<>>
    /\ connected = FALSE
    /\ nconnect = 0
    /\ sent = <<>>
    /\ accel_dict = NoDict
    /\ gyro_dict = NoDict
    /\ iter = 0
    /\ sample \in 1..NSamples
    /\ k = 0
    /\ high = 0
    /\ raw = <<0, 0, 0, 0, 0, 0>>
    /\ now = 0
    /\ start_time = 0
    /\ prev_start = 0
    /\ elapsed = 0
    /\ curr_delay = 0
    /\ sleeps = <<>>
    /\ out = <<>>
    /\ exitCode = NotExited
    /\ raised = NoException
    /\ raisedAt = "nowhere"
    /\ init_max = NoMax
    /\ loop_max = NoMax
    /\ fin = <<>>
    /\ fout = <<>>

SpecAddr == InitAddr /\ [][Next]_vars

\* the decimal digits d2 d1 d0 of n < 1000 weighted by powers of 16
DigitsAsHex(n) == (n % 10) + 16 * ((n \div 10) % 10) + 256 * (n \div 100)

\* C18: the address of every bus operation is the decimal digits of
\* --i2c_address read as hexadecimal digits (68 gives 104, not 68); it is
\* bound once, at construction, and every read and write of the run uses it.
C18_AddressHexDigits ==
    /\ address = Unbound => pc \in {"open_bus", "crashed"} /\ busLog = <<>>
    /\ address # Unbound => address = DigitsAsHex(i2c_address)
    /\ (address # Unbound /\ i2c_address = 68) => address = 104
    /\ pc \notin {"open_bus", "crashed"} => address # Unbound
    /\ \A i \in 1..Len(busLog) : busLog[i].addr = DigitsAsHex(i2c_address)

C18_Witness ==
    /\ i2c_address = 68
    /\ iter = 2
    /\ Len(busLog) = ConstructionOps + ReadsPerIter * 2
    /\ \E i \in 1..Len(busLog) : busLog[i].op = "write" /\ busLog[i].addr = 104
    /\ \E i \in 1..Len(busLog) : busLog[i].op = "read" /\ busLog[i].addr = 104

\* the publish messages sent so far on topic t
PublishesOn(t) ==
    SelectSeq(sent, LAMBDA m : IsPublish(m) /\ Get(m, "topic") = t)

\* accel publish messages sent minus gyro publish messages sent
AccelLead == Len(PublishesOn(TopicAccel)) - Len(PublishesOn(TopicGyro))

\* C19: the number of accel publish messages sent minus the number of gyro
\* publish messages sent is 0 or 1 in every state, whatever ended the run; it
\* is 0 at every iteration start, and in a stopped run it is 1 exactly when
\* the run ended after the accel send and before the gyro send was done.
C19_AccelGyroBalance ==
    LET lead == AccelLead
    IN  /\ lead \in {0, 1}
        /\ Len(Publishes) = 2 * Len(PublishesOn(TopicGyro)) + lead
        /\ pc \in InitPcs \cup {"iter_start", "read", "debug_chk",
                                "send_acc"} => lead = 0
        /\ pc = "send_gyro" => lead = 1
        /\ pc \in EndPcs => (lead = 1 <=> raisedAt = "send_gyro")

C19_Witness ==
    /\ pc = "stopped"
    /\ raisedAt = "send_gyro"
    /\ raised = "IOError"
    /\ iter = 2
    /\ Len(PublishesOn(TopicAccel)) = 2
    /\ Len(PublishesOn(TopicGyro)) = 1

\* bits 3..4 of a configuration register: the full-scale selector the device
\* works with
SelectorBits(v) == (v \div 8) % 4

\* C20: once construction is through, for every prior content of the two
\* configuration registers, bits 3..4 of register 0x1B equal FS_SEL and
\* bits 3..4 of register 0x1C equal AFS_SEL, so the scale factors in use are
\* those of the range the device is set to.
C20_SelectorBitsStored ==
    (ReachedRunning /\ FS_SEL \in 0..3 /\ AFS_SEL \in 0..3) =>
        /\ SelectorBits(regs[REG_GYRO_CONFIG]) = FS_SEL
        /\ SelectorBits(regs[REG_ACCEL_CONFIG]) = AFS_SEL
        /\ scale_factor_gyro = GyroScale(SelectorBits(regs[REG_GYRO_CONFIG]))
        /\ scale_factor_acc = AccelScale(SelectorBits(regs[REG_ACCEL_CONFIG]))

====
